---- MODULE Spec2Model ----
(***************************************************************************)
(* WhatsApp monitor (wa-monitor/index.js): the per-identity connection     *)
(* lifecycle (connectBot, the connection.update handler, the HTTP control  *)
(* surface, startup auto-reconnect) and the messages.upsert pipeline.      *)
(*                                                                         *)
(* Node runs every handler to its next await; one action of this module    *)
(* is one such run-to-suspension step.                                     *)
(*                                                                         *)
(* Conventions: null / undefined of a string-valued field is the empty     *)
(* sequence <<>> for conn.qr (both are falsy) and socket 0 for conn.socket *)
(* (socket ids are the positions of socks, 1..Len(socks)).                 *)
(***************************************************************************)
EXTENDS Integers, Sequences, FiniteSets, TLC

\* ------------------------------------------------------------- bounds
\* identities (botId values) the control surface is asked about
Bots == {1}
\* connectBot invocations (hence sockets) per run
MaxSocks == 2
\* messages the transport delivers per run
MaxMsgs == 2
\* QR challenges the transport issues per run
MaxQR == 2
\* GET /wa/qr handlers in their wait loop at the same time
MaxPoll == 1
\* POST /wa/disconnect handlers of one identity awaiting logout() at the same time
MaxDisc == 1
\* GET /wa/groups handlers suspended at a time
MaxQuery == 1

\* ------------------------------------------------------------- program constants
\* DisconnectReason.loggedOut, the one close reason that means logout
LoggedOut == 401
\* lastDisconnect?.error?.output?.statusCode of a close that carries no error
NoReason == 0
\* the QR wait loop: for (let i = 0; i < 20; i++)
PollLimit == 20
\* if (!text || text.length < 5) continue
MinTextLen == 5
\* close reasons the transport reports: logged out, none (statusCode
\* undefined), and 428 for the other status codes, which the handler treats alike
CloseReasons == {LoggedOut, NoReason, 428}

Null == <<>>
NoSocket == 0

VARIABLES
    connections,  \* connections[botId]: [present, socket, status, qr]
    sessionDir,   \* AUTH_DIR/bot_<id> on disk: "none" | "dir" | "creds"
    socks,        \* every socket makeWASocket returned: [bot, phase, qrs]
    nqr,          \* QR challenges issued so far
    encodes,      \* QRCode.toDataURL calls not yet settled: [sock, n]
    timers,       \* timers[b]: setTimeout(() => connectBot(b), 5000) outstanding
    connects,     \* connects[b]: connectBot calls suspended at each await
    auto,         \* autoReconnect: [pc, todo, bot]
    watch,        \* whether the wait loops of GET /wa/qr are followed
    pollers,      \* GET /wa/qr handlers in the wait loop, when followed: [bot, i]
    discs,        \* discs[b]: POST /wa/disconnect handlers awaiting logout()
    crashed,      \* the process died of an unhandled rejection
    cancelled,    \* history: a disconnect completed while a reconnect timer was
                  \* outstanding and no connectBot was under way, and no pairing
                  \* request has started one since
    replied,      \* replied[b]: the step just taken sent the answer
                  \* { success: true } of a disconnect of b
    listed,       \* the answer of GET /wa/groups the step just taken sent, if any
    queries       \* GET /wa/groups handlers awaiting groupFetchAllParticipating():
                  \* the sockets they called, in ascending order

VARIABLES
    upserts,      \* messages.upsert handlers suspended in an await: [sock, rest, stage]
    posts,        \* the POSTs to /api/wa-promo issued so far, in order: [body, meta,
                  \* outcome], meta the history of how the group metadata query
                  \* ended, outcome how the POST ended
    delivered     \* history: every message the transport delivered, with the type
                  \* and the number of its batch

coreVars == <<connections, sessionDir, socks, nqr, encodes, timers, connects, auto,
              watch, pollers, discs, crashed, cancelled>>

lifeVars == <<coreVars, replied, listed, queries>>

msgVars == <<upserts, posts, delivered>>

vars == <<lifeVars, msgVars>>

\* ------------------------------------------------------------- helpers
\* no answer of a disconnect has just been sent
NoReply == [b \in Bots |-> FALSE]

\* the step sent no answer of GET /wa/groups
NoAnswer == "none"

NoEntry == [present |-> FALSE, socket |-> NoSocket, status |-> "disconnected", qr |-> Null]

\* connections[botId] = { socket: null, status: 'disconnected', qr: null }
FreshEntry == [present |-> TRUE, socket |-> NoSocket, status |-> "disconnected", qr |-> Null]

SockIds == 1..Len(socks)

\* the n-th pairing challenge string the transport issues
Challenge(n) == <<"qr", n>>

\* QRCode.toDataURL(qr): a data URI wrapping the challenge
ToDataURL(ch) == <<"data:image/png;base64,">> \o ch

\* JS truthiness of conn.qr
Truthy(q) == Len(q) > 0

LiveSocks(b) == {s \in SockIds : socks[s].bot = b /\ socks[s].phase # "closed"}

\* connectBot calls made so far: finished, suspended, or being awaited by autoReconnect
Started ==
    LET RECURSIVE Sum(_)
        Sum(S) == IF S = {} THEN 0
                  ELSE LET b == CHOOSE x \in S : TRUE
                       IN connects[b].auth + connects[b].version + Sum(S \ {b})
    IN Len(socks) + Sum(Bots) + (IF auto.pc \in {"auth", "version"} THEN 1 ELSE 0)

Min(S) == CHOOSE x \in S : \A y \in S : x <= y

\* the memory and disk a handler writes, passed through the handlers as one value
Store == [c |-> connections, d |-> sessionDir, t |-> timers]


Apply(st) ==
    /\ connections' = st.c
    /\ sessionDir' = st.d
    /\ timers' = st.t

\* ------------------------------------------------------------- connectBot
\* useMultiFileAuthState(authPath) resolved: the folder exists from now on
AuthLoaded(st, b) ==
    [st EXCEPT !.d[b] = IF @ = "none" THEN "dir" ELSE @]

\* connectBot after its awaits: the entry is created when absent, the socket
\* made, connections[botId].socket = sock, and the listeners registered
ConnectBotTail(st, b, sock) ==
    LET st1 == IF st.c[b].present THEN st ELSE [st EXCEPT !.c[b] = FreshEntry]
    IN [st1 EXCEPT !.c[b].socket = sock]

NewSocket(b) == [bot |-> b, phase |-> "connecting", qrs |-> <<>>]

\* a socket the transport has ended emits nothing more
Ended(b) == [bot |-> b, phase |-> "closed", qrs |-> <<>>]

\* the process ends: memory is gone, the session folders stay on disk
Dies ==
    /\ crashed' = TRUE
    /\ connections' = [b \in Bots |-> NoEntry]
    /\ socks' = <<>>
    /\ nqr' = 0
    /\ encodes' = {}
    /\ timers' = [b \in Bots |-> 0]
    /\ connects' = [b \in Bots |-> [auth |-> 0, version |-> 0]]
    /\ auto' = [pc |-> "done", todo |-> {}, bot |-> 0]
    /\ pollers' = {}
    /\ discs' = [b \in Bots |-> <<>>]
    /\ cancelled' = [b \in Bots |-> FALSE]
    /\ replied' = NoReply
    /\ listed' = NoAnswer
    /\ queries' = <<>>
    /\ UNCHANGED <<sessionDir, watch>>

\* the synchronous head of connectBot(botId), up to its first await
CallConnectBot(b) ==
    /\ Started < MaxSocks
    /\ connects' = [connects EXCEPT ![b].auth = @ + 1]

\* ------------------------------------------------------------- connection.update
\* if (qr) { qrBase64 = await QRCode.toDataURL(qr); .qr = qrBase64; .status = 'waiting_qr' }
OnQREncoded(st, b, img) ==
    [st EXCEPT !.c[b].qr = img, !.c[b].status = "waiting_qr"]

\* an open that leaves the stored image in place
OnOpenKeepsQR(st, b) ==
    [st EXCEPT !.c[b].status = "connected"]

\* if (connection === 'open')
OnOpen(st, b) ==
    [st EXCEPT !.c[b].status = "connected", !.c[b].qr = Null]

\* the test turned round: === for !==
ShouldReconnectInverted(reason) == reason = LoggedOut

\* const shouldReconnect = reason !== DisconnectReason.loggedOut
ShouldReconnect(reason) == reason # LoggedOut

\* if (connection === 'close')
OnClose(st, b, reason) ==
    LET st1 == [st EXCEPT !.c[b].status = "disconnected", !.c[b].qr = Null]
    IN IF ShouldReconnect(reason)
       THEN [st1 EXCEPT !.t[b] = @ + 1]
       ELSE [st1 EXCEPT !.d[b] = "none"]

\* ------------------------------------------------------------- POST /wa/disconnect
\* the lines after the try/catch: status, qr, socket, then the auth folder
DisconnectTail(st, b) ==
    [st EXCEPT !.c[b].status = "disconnected", !.c[b].qr = Null,
               !.c[b].socket = NoSocket, !.d[b] = "none"]

\* ------------------------------------------------------------- initial state
InitLife(follow) ==
    /\ connections = [b \in Bots |-> NoEntry]
    /\ sessionDir \in [Bots -> {"none", "dir", "creds"}]
    /\ socks = <<>>
    /\ nqr = 0
    /\ encodes = {}
    /\ timers = [b \in Bots |-> 0]
    /\ connects = [b \in Bots |-> [auth |-> 0, version |-> 0]]
    /\ auto = [pc |-> "start", todo |-> {}, bot |-> 0]
    /\ watch = follow
    /\ pollers = {}
    /\ discs = [b \in Bots |-> <<>>]
    /\ crashed = FALSE
    /\ cancelled = [b \in Bots |-> FALSE]
    /\ replied = NoReply
    /\ listed = NoAnswer
    /\ queries = <<>>
    /\ upserts = <<>>
    /\ posts = <<>>
    /\ delivered = <<>>

Init == InitLife(FALSE)

\* ------------------------------------------------------------- autoReconnect
\* the for loop up to its next await connectBot(botId): folders without
\* creds.json are passed over (folders are taken in ascending id order)
AutoAdvance(todo, used) ==
    LET cands == {b \in todo : sessionDir'[b] = "creds"}
    IN IF cands = {}
       THEN auto' = [pc |-> "done", todo |-> {}, bot |-> 0]
       ELSE /\ used < MaxSocks
            /\ auto' = [pc |-> "auth", todo |-> {x \in todo : x > Min(cands)},
                        bot |-> Min(cands)]

\* app.listen callback: dirs = readdirSync(AUTH_DIR).filter(bot_*)
AutoStart ==
    /\ ~crashed
    /\ UNCHANGED msgVars
    /\ auto.pc = "start"
    /\ replied' = NoReply
    /\ listed' = NoAnswer
    /\ queries' = queries
    /\ UNCHANGED <<connections, sessionDir, socks, nqr, encodes, timers, connects,
                   watch, pollers, discs, crashed, cancelled>>
    /\ AutoAdvance({b \in Bots : sessionDir[b] # "none"}, Started)

AutoAuthLoaded ==
    /\ ~crashed
    /\ UNCHANGED msgVars
    /\ auto.pc = "auth"
    /\ Apply(AuthLoaded(Store, auto.bot))
    /\ auto' = [auto EXCEPT !.pc = "version"]
    /\ replied' = NoReply
    /\ listed' = NoAnswer
    /\ queries' = queries
    /\ UNCHANGED <<socks, nqr, encodes, connects, watch, pollers, discs, crashed, cancelled>>

AutoVersionFetched ==
    /\ ~crashed
    /\ UNCHANGED msgVars
    /\ auto.pc = "version"
    /\ socks' = Append(socks, NewSocket(auto.bot))
    /\ Apply(ConnectBotTail(Store, auto.bot, Len(socks) + 1))
    /\ AutoAdvance(auto.todo, Started)
    /\ replied' = NoReply
    /\ listed' = NoAnswer
    /\ queries' = queries
    /\ UNCHANGED <<nqr, encodes, connects, watch, pollers, discs, crashed, cancelled>>

\* catch (err) { console.error('Auto-reconnect failed') }: the loop goes on
AutoRejected ==
    /\ ~crashed
    /\ UNCHANGED msgVars
    /\ auto.pc \in {"auth", "version"}
    /\ replied' = NoReply
    /\ listed' = NoAnswer
    /\ queries' = queries
    /\ UNCHANGED <<connections, sessionDir, socks, nqr, encodes, timers, connects,
                   watch, pollers, discs, crashed, cancelled>>
    /\ AutoAdvance(auto.todo, Started - 1)

\* ------------------------------------------------------------- connectBot, not awaited
ConnectAuthLoaded(b) ==
    /\ ~crashed
    /\ UNCHANGED msgVars
    /\ connects[b].auth > 0
    /\ connects' = [connects EXCEPT ![b].auth = @ - 1, ![b].version = @ + 1]
    /\ Apply(AuthLoaded(Store, b))
    /\ replied' = NoReply
    /\ listed' = NoAnswer
    /\ queries' = queries
    /\ UNCHANGED <<socks, nqr, encodes, auto, watch, pollers, discs, crashed, cancelled>>

ConnectVersionFetched(b) ==
    /\ ~crashed
    /\ UNCHANGED msgVars
    /\ connects[b].version > 0
    /\ connects' = [connects EXCEPT ![b].version = @ - 1]
    /\ socks' = Append(socks, NewSocket(b))
    /\ Apply(ConnectBotTail(Store, b, Len(socks) + 1))
    /\ replied' = NoReply
    /\ listed' = NoAnswer
    /\ queries' = queries
    /\ UNCHANGED <<nqr, encodes, auto, watch, pollers, discs, crashed, cancelled>>

\* connectBot(botId) called without await or catch (GET /wa/qr, the reconnect
\* timer): its rejection is unhandled, which ends a Node 18 process
ConnectRejected(b) ==
    /\ ~crashed
    /\ UNCHANGED msgVars
    /\ connects[b].auth + connects[b].version > 0
    /\ Dies

\* the timer runs out and its callback does nothing
TimerFireForgets(b) ==
    /\ ~crashed
    /\ UNCHANGED msgVars
    /\ timers[b] > 0
    /\ timers' = [timers EXCEPT ![b] = @ - 1]
    /\ replied' = NoReply
    /\ listed' = NoAnswer
    /\ UNCHANGED <<connections, sessionDir, socks, nqr, encodes, connects, auto, watch,
                   pollers, discs, crashed, cancelled, queries>>

\* setTimeout(() => connectBot(botId), 5000) fires
TimerFire(b) ==
    /\ ~crashed
    /\ UNCHANGED msgVars
    /\ timers[b] > 0
    /\ timers' = [timers EXCEPT ![b] = @ - 1]
    /\ CallConnectBot(b)
    /\ replied' = NoReply
    /\ listed' = NoAnswer
    /\ queries' = queries
    /\ UNCHANGED <<connections, sessionDir, socks, nqr, encodes, auto, watch, pollers, discs, crashed, cancelled>>

\* ------------------------------------------------------------- transport events
\* connection.update { qr }: the handler suspends in QRCode.toDataURL
SockQR(s) ==
    /\ ~crashed
    /\ UNCHANGED msgVars
    /\ socks[s].phase = "connecting"
    /\ nqr < MaxQR
    /\ nqr' = nqr + 1
    /\ socks' = [socks EXCEPT ![s].qrs = Append(@, nqr + 1)]
    /\ encodes' = encodes \cup {[sock |-> s, n |-> nqr + 1]}
    /\ replied' = NoReply
    /\ listed' = NoAnswer
    /\ queries' = queries
    /\ UNCHANGED <<connections, sessionDir, timers, connects, auto, watch, pollers, discs, crashed, cancelled>>

\* a pending toDataURL resolves and the handler stores the image. The encoder
\* works off the event loop, so pending calls settle in any order; it is taken
\* to resolve, since a pairing challenge is always a string it can encode
QREncoded(e) ==
    /\ ~crashed
    /\ UNCHANGED msgVars
    /\ e \in encodes
    /\ encodes' = encodes \ {e}
    /\ Apply(OnQREncoded(Store, socks[e.sock].bot, ToDataURL(Challenge(e.n))))
    /\ replied' = NoReply
    /\ listed' = NoAnswer
    /\ queries' = queries
    /\ UNCHANGED <<socks, nqr, connects, auto, watch, pollers, discs, crashed, cancelled>>

\* connection.update { connection: 'open' }
SockOpen(s) ==
    /\ ~crashed
    /\ UNCHANGED msgVars
    /\ socks[s].phase = "connecting"
    /\ socks' = [socks EXCEPT ![s].phase = "open"]
    /\ Apply(OnOpen(Store, socks[s].bot))
    /\ replied' = NoReply
    /\ listed' = NoAnswer
    /\ queries' = queries
    /\ UNCHANGED <<nqr, encodes, connects, auto, watch, pollers, discs, crashed, cancelled>>

\* connection.update { connection: 'close', lastDisconnect }
SockClose(s, reason) ==
    /\ ~crashed
    /\ UNCHANGED msgVars
    /\ socks[s].phase # "closed"
    /\ socks' = [socks EXCEPT ![s] = Ended(socks[s].bot)]
    /\ Apply(OnClose(Store, socks[s].bot, reason))
    /\ replied' = NoReply
    /\ listed' = NoAnswer
    /\ queries' = queries
    /\ UNCHANGED <<nqr, encodes, connects, auto, watch, pollers, discs, crashed, cancelled>>

\* creds.update -> saveCreds: creds.json is written into the folder, if there
CredsUpdate(s) ==
    /\ ~crashed
    /\ UNCHANGED msgVars
    /\ socks[s].phase # "closed"
    /\ sessionDir[socks[s].bot] = "dir"
    /\ sessionDir' = [sessionDir EXCEPT ![socks[s].bot] = "creds"]
    /\ replied' = NoReply
    /\ listed' = NoAnswer
    /\ queries' = queries
    /\ UNCHANGED <<connections, socks, nqr, encodes, timers, connects, auto, watch, pollers,
                   discs, crashed, cancelled>>

\* ------------------------------------------------------------- GET /wa/qr/:botId
\* if (!connections[botId] || connections[botId].status === 'disconnected')
NeedsStart(b) == ~connections[b].present \/ connections[b].status = "disconnected"

\* connectBot(botId) is called and the handler enters its wait loop
QrRequestStart(b) ==
    /\ ~crashed
    /\ UNCHANGED msgVars
    /\ auto.pc # "start"
    /\ NeedsStart(b)
    /\ CallConnectBot(b)
    /\ watch => Cardinality(pollers \cup {[bot |-> b, i |-> 0]}) <= MaxPoll
    /\ pollers' = IF watch THEN pollers \cup {[bot |-> b, i |-> 0]} ELSE pollers
    /\ cancelled' = [cancelled EXCEPT ![b] = FALSE]
    /\ replied' = NoReply
    /\ listed' = NoAnswer
    /\ queries' = queries
    /\ UNCHANGED <<connections, sessionDir, socks, nqr, encodes, timers, auto, watch, discs, crashed>>

\* the answer after the wait, lines 205 to 218: Connection failed without an
\* entry, already_connected, qr_ready, or QR not ready yet with the status
QrAnswer(b) ==
    IF ~connections[b].present THEN [success |-> FALSE, status |-> "failed"]
    ELSE IF connections[b].status = "connected"
         THEN [success |-> TRUE, status |-> "already_connected"]
    ELSE IF Truthy(connections[b].qr) THEN [success |-> TRUE, status |-> "qr_ready"]
    ELSE [success |-> FALSE, status |-> connections[b].status]

\* the entry is there and not disconnected: the handler answers at once
QrRequestRespond(b) ==
    /\ ~crashed
    /\ UNCHANGED msgVars
    /\ auto.pc # "start"
    /\ ~NeedsStart(b)
    /\ replied' = NoReply
    /\ listed' = NoAnswer
    /\ queries' = queries
    /\ UNCHANGED coreVars

QrRequest(b) == QrRequestStart(b) \/ QrRequestRespond(b)

\* await new Promise(r => setTimeout(r, 500)); if (connections[botId]?.qr) break;
PollTick(p) ==
    /\ ~crashed
    /\ UNCHANGED msgVars
    /\ p \in pollers
    /\ pollers' = IF Truthy(connections[p.bot].qr) \/ p.i + 1 >= PollLimit
                  THEN pollers \ {p}
                  ELSE (pollers \ {p}) \cup {[bot |-> p.bot, i |-> p.i + 1]}
    /\ replied' = NoReply
    /\ listed' = NoAnswer
    /\ queries' = queries
    /\ UNCHANGED <<connections, sessionDir, socks, nqr, encodes, timers, connects, auto,
                   watch, discs, crashed, cancelled>>

\* ------------------------------------------------------------- POST /wa/disconnect/:botId
\* a reconnect timer is outstanding and nothing else is about to start b
TimerOnly(b) ==
    /\ timers[b] > 0
    /\ connects[b].auth + connects[b].version = 0
    /\ ~(auto.pc \in {"auth", "version"} /\ auto.bot = b)
    /\ b \notin auto.todo

\* if (conn?.socket)
HasHandle(b) == connections[b].present /\ connections[b].socket # NoSocket

\* no entry or no socket: nothing is touched, res.json({ success: true })
DisconnectNoHandle(b) ==
    /\ ~crashed
    /\ UNCHANGED msgVars
    /\ auto.pc # "start"
    /\ ~HasHandle(b)
    /\ cancelled' = [cancelled EXCEPT ![b] = @ \/ TimerOnly(b)]
    /\ replied' = [NoReply EXCEPT ![b] = TRUE]
    /\ listed' = NoAnswer
    /\ queries' = queries
    /\ UNCHANGED <<connections, sessionDir, socks, nqr, encodes, timers, connects, auto,
                   watch, pollers, discs, crashed>>

\* the suspended handlers of one identity, kept in ascending order of socket
Insert(q, s) ==
    LET k == Cardinality({j \in 1..Len(q) : q[j] <= s})
    IN SubSeq(q, 1, k) \o <<s>> \o SubSeq(q, k + 1, Len(q))

\* await conn.socket.logout(): the handler suspends, holding the socket it called
DisconnectStart(b) ==
    /\ ~crashed
    /\ UNCHANGED msgVars
    /\ auto.pc # "start"
    /\ HasHandle(b)
    /\ Len(discs[b]) < MaxDisc
    /\ discs' = [discs EXCEPT ![b] = Insert(@, connections[b].socket)]
    /\ replied' = NoReply
    /\ listed' = NoAnswer
    /\ queries' = queries
    /\ UNCHANGED <<connections, sessionDir, socks, nqr, encodes, timers, connects, auto,
                   watch, pollers, crashed, cancelled>>

Remove(q, i) == SubSeq(q, 1, i - 1) \o SubSeq(q, i + 1, Len(q))

\* logout() resolved: the transport ended socket s; a socket that was live may
\* report its end as a close with the logged-out reason before the handler resumes
DisconnectLogoutOk(b, i, emit) ==
    LET s == discs[b][i]
        st1 == IF emit THEN OnClose(Store, b, LoggedOut) ELSE Store
    IN /\ ~crashed
       /\ UNCHANGED msgVars
       /\ i \in 1..Len(discs[b])
       /\ emit => socks[s].phase # "closed"
       /\ discs' = [discs EXCEPT ![b] = Remove(@, i)]
       /\ socks' = [socks EXCEPT ![s] = Ended(b)]
       /\ Apply(DisconnectTail(st1, b))
       /\ cancelled' = [cancelled EXCEPT ![b] = @ \/ TimerOnly(b)]
       /\ replied' = [NoReply EXCEPT ![b] = TRUE]
       /\ listed' = NoAnswer
       /\ queries' = queries
       /\ UNCHANGED <<nqr, encodes, connects, auto, watch, pollers, crashed>>

\* logout() rejected: catch { conn.socket.end() } on the socket the entry holds
\* now; a live one may report its end as a close that carries no error. When
\* another disconnect has set conn.socket = null meanwhile, conn.socket.end()
\* throws a TypeError out of the async handler, which the server either leaves
\* unhandled (the process ends) or answers with an error
DisconnectLogoutFail(b, i, emit) ==
    LET cur == connections[b].socket
        st1 == IF emit THEN OnClose(Store, b, NoReason) ELSE Store
    IN /\ ~crashed
       /\ UNCHANGED msgVars
       /\ i \in 1..Len(discs[b])
       /\ IF cur = NoSocket
          THEN /\ ~emit
               /\ \/ Dies
                  \/ /\ discs' = [discs EXCEPT ![b] = Remove(@, i)]
                     /\ replied' = NoReply
                     /\ listed' = NoAnswer
                     /\ queries' = queries
                     /\ UNCHANGED <<connections, sessionDir, socks, nqr, encodes,
                                    timers, connects, auto, watch, pollers, crashed,
                                    cancelled>>
          ELSE /\ emit => socks[cur].phase # "closed"
               /\ discs' = [discs EXCEPT ![b] = Remove(@, i)]
               /\ socks' = [socks EXCEPT ![cur] = Ended(b)]
               /\ Apply(DisconnectTail(st1, b))
               /\ cancelled' = [cancelled EXCEPT ![b] = @ \/ TimerOnly(b)]
               /\ replied' = [NoReply EXCEPT ![b] = TRUE]
               /\ listed' = NoAnswer
               /\ queries' = queries
               /\ UNCHANGED <<nqr, encodes, connects, auto, watch, pollers, crashed>>

\* ------------------------------------------------------------- GET /wa/groups
\* the test turned round: any entry with a socket is asked
CanListAnyStatus(b) == HasHandle(b)

\* !(!conn?.socket || conn.status !== 'connected')
CanList(b) == HasHandle(b) /\ connections[b].status = "connected"

\* return res.json({ success: false, error: 'Not connected' })
GroupsNotConnected(b) ==
    /\ ~crashed
    /\ UNCHANGED msgVars
    /\ auto.pc # "start"
    /\ ~CanList(b)
    /\ listed' = "not connected"
    /\ replied' = NoReply
    /\ UNCHANGED <<coreVars, queries>>

\* await conn.socket.groupFetchAllParticipating(): the handler suspends
GroupsQuery(b) ==
    /\ ~crashed
    /\ UNCHANGED msgVars
    /\ auto.pc # "start"
    /\ CanList(b)
    /\ Len(queries) < MaxQuery
    /\ queries' = Insert(queries, connections[b].socket)
    /\ listed' = NoAnswer
    /\ replied' = NoReply
    /\ UNCHANGED coreVars

\* the query resolved: res.json({ success: true, groups: groupList })
GroupsResolved(i) ==
    /\ ~crashed
    /\ UNCHANGED msgVars
    /\ i \in 1..Len(queries)
    /\ queries' = Remove(queries, i)
    /\ listed' = "groups"
    /\ replied' = NoReply
    /\ UNCHANGED coreVars

\* the query rejected: catch (err) { res.json({ success: false, error: err.message }) }
GroupsRejected(i) ==
    /\ ~crashed
    /\ UNCHANGED msgVars
    /\ i \in 1..Len(queries)
    /\ queries' = Remove(queries, i)
    /\ listed' = "failed"
    /\ replied' = NoReply
    /\ UNCHANGED coreVars

\* ------------------------------------------------------------- messages.upsert
\* A string-valued field that may be undefined: [some, str], str a sequence of
\* characters. Undef is undefined (or null), Some(<<>>) the empty string.
Undef == [some |-> FALSE, str |-> <<>>]
Some(str) == [some |-> TRUE, str |-> str]

\* a || b on such fields: a when a is truthy (defined and non-empty), else b
Or(a, b) == IF a.some /\ Len(a.str) > 0 THEN a ELSE b

\* str.endsWith(suffix)
EndsWith(str, suffix) ==
    /\ Len(str) >= Len(suffix)
    /\ SubSeq(str, Len(str) - Len(suffix) + 1, Len(str)) = suffix

GroupSuffix == <<"@", "g", ".", "u", "s">>
StatusJid == <<"s", "t", "a", "t", "u", "s", "@", "b", "r", "o", "a", "d", "c", "a", "s", "t">>
GroupJid == <<"1", "2", "0", "3">> \o GroupSuffix
DirectJid == <<"6", "0", "1", "@", "s", ".", "w", "h", "a", "t", "s", "a", "p", "p", ".", "n", "e", "t">>
MemberJid == <<"6", "0", "9", "@", "s", ".", "w", "h", "a", "t", "s", "a", "p", "p", ".", "n", "e", "t">>

\* msg.message?.imageMessage?.caption, msg.message?.videoMessage?.caption
Caption(media) == IF media.present THEN media.caption ELSE Undef

\* the captions tried before the text bodies
ExtractTextCaptionFirst(m) ==
    Or(Or(Or(Or(Caption(m.image), Caption(m.video)), m.conversation), m.extendedText),
       Some(<<>>)).str

\* msg.message?.conversation || ...extendedTextMessage?.text
\*   || ...imageMessage?.caption || ...videoMessage?.caption || ''
ExtractText(m) ==
    Or(Or(Or(Or(m.conversation, m.extendedText), Caption(m.image)), Caption(m.video)),
       Some(<<>>)).str

\* the three continue tests on msg.key
KeyPasses(m) ==
    /\ m.remoteJid.some /\ EndsWith(m.remoteJid.str, GroupSuffix)
    /\ ~m.fromMe
    /\ m.remoteJid.str # StatusJid

\* the bound off by one: <= for <
TextPassesOffByOne(text) == ~(Len(text) = 0 \/ Len(text) <= MinTextLen)

\* if (!text || text.length < 5) continue
TextPasses(text) == ~(Len(text) = 0 \/ Len(text) < MinTextLen)

Passes(m) == KeyPasses(m) /\ TextPasses(ExtractText(m))

\* the for loop, run on to the next message it does not skip
RECURSIVE SkipTo(_)
SkipTo(msgs) ==
    IF msgs = <<>> \/ Passes(Head(msgs)) THEN msgs ELSE SkipTo(Tail(msgs))

\* groupName = metadata.subject || msg.key.remoteJid
GroupName(m, subject) == Or(subject, m.remoteJid).str

\* the body of the POST to /api/wa-promo (botId is a decimal numeral; bot_id is
\* the number parseInt reads from it)
Payload(b, m, groupName) ==
    [bot_id |-> b,
     group_name |-> groupName,
     group_jid |-> m.remoteJid.str,
     sender |-> Or(m.participant, m.remoteJid).str,
     text |-> ExtractText(m),
     timestamp |-> m.ts,
     has_media |-> m.image.present \/ m.video.present]

\* the handler suspended at sock.groupMetadata for the head of msgs, or ended
Suspend(s, msgs) ==
    IF SkipTo(msgs) = <<>> THEN <<>>
    ELSE <<[sock |-> s, rest |-> SkipTo(msgs), stage |-> "meta"]>>

\* messageTimestamp: the place of the message in the transport's stream
Stamp(msgs) == [i \in 1..Len(msgs) |-> [msgs[i] EXCEPT !.ts = Len(delivered) + i]]

\* the number of the messages.upsert event being emitted
Batch == IF delivered = <<>> THEN 1 ELSE delivered[Len(delivered)].batch + 1

\* sock.ev.on('messages.upsert', async ({ messages, type }) => ...): the
\* emitter does not wait for the handler, so handlers of successive batches
\* are suspended side by side
MessagesUpsert(s, msgs, type) ==
    /\ ~crashed
    /\ socks[s].phase # "closed"
    /\ Len(msgs) >= 1
    /\ Len(delivered) + Len(msgs) <= MaxMsgs
    /\ delivered' = delivered \o [i \in 1..Len(msgs) |->
                                      [msg |-> Stamp(msgs)[i], type |-> type, batch |-> Batch]]
    /\ upserts' = IF type # "notify" THEN upserts ELSE upserts \o Suspend(s, Stamp(msgs))
    /\ UNCHANGED <<posts, lifeVars>>

\* the group name is settled one way or the other and fetch() is called
Forward(k, groupName, meta) ==
    LET h == upserts[k]
    IN /\ posts' = Append(posts, [body |-> Payload(socks[h.sock].bot, Head(h.rest), groupName),
                                   meta |-> meta, outcome |-> "pending"])
       /\ upserts' = [upserts EXCEPT ![k].stage = "post"]
       /\ UNCHANGED <<delivered, lifeVars>>

\* metadata = await sock.groupMetadata(jid) resolved
MetaResolved(k, subject) ==
    /\ ~crashed
    /\ k \in 1..Len(upserts)
    /\ upserts[k].stage = "meta"
    /\ Forward(k, GroupName(Head(upserts[k].rest), subject),
               [rejected |-> FALSE, subject |-> subject])

\* the rejection not caught: the handler ends there and nothing is forwarded
MetaRejectedAborts(k) ==
    /\ ~crashed
    /\ k \in 1..Len(upserts)
    /\ upserts[k].stage = "meta"
    /\ upserts' = SubSeq(upserts, 1, k - 1) \o SubSeq(upserts, k + 1, Len(upserts))
    /\ UNCHANGED <<posts, delivered, lifeVars>>

\* catch (e) { /* Use JID as fallback */ }: groupName keeps msg.key.remoteJid
MetaRejected(k) ==
    /\ ~crashed
    /\ k \in 1..Len(upserts)
    /\ upserts[k].stage = "meta"
    /\ Forward(k, Head(upserts[k].rest).remoteJid.str,
               [rejected |-> TRUE, subject |-> Undef])

\* the POST the handler k is awaiting
Awaited(k) ==
    CHOOSE i \in 1..Len(posts) :
        /\ posts[i].outcome = "pending"
        /\ posts[i].body.timestamp = Head(upserts[k].rest).ts

\* what is kept of the outcome of a POST: whether it was delivered
Settled(outcome) == IF outcome = "ok" THEN "ok" ELSE "failed"

\* a failed POST ends the handler: the rest of the batch is dropped
FetchSettledGivesUp(k, outcome) ==
    /\ ~crashed
    /\ k \in 1..Len(upserts)
    /\ upserts[k].stage = "post"
    /\ posts' = [posts EXCEPT ![Awaited(k)].outcome = Settled(outcome)]
    /\ upserts' = SubSeq(upserts, 1, k - 1)
                  \o (IF outcome = "ok" THEN Suspend(upserts[k].sock, Tail(upserts[k].rest))
                      ELSE <<>>)
                  \o SubSeq(upserts, k + 1, Len(upserts))
    /\ UNCHANGED <<delivered, lifeVars>>

\* await fetch(...) settled: a response that is ok, one that is not (logged),
\* or a rejection (caught, logged); the loop goes on with the next message
FetchSettled(k, outcome) ==
    /\ ~crashed
    /\ k \in 1..Len(upserts)
    /\ upserts[k].stage = "post"
    /\ posts' = [posts EXCEPT ![Awaited(k)].outcome = Settled(outcome)]
    /\ upserts' = SubSeq(upserts, 1, k - 1)
                  \o Suspend(upserts[k].sock, Tail(upserts[k].rest))
                  \o SubSeq(upserts, k + 1, Len(upserts))
    /\ UNCHANGED <<delivered, lifeVars>>

FetchOutcomes == {"ok", "not ok", "rejected"}

\* ------------------------------------------------------------- inputs
BatchTypes == {"notify", "append"}

\* metadata.subject as the transport may report it
Subjects == {Undef, Some(<<>>), Some(<<"P", "r", "o", "m", "o">>)}

\* a text of n characters that shows which field it came from
Txt(tag, n) == [i \in 1..n |-> IF i = 1 THEN tag ELSE "x"]

Texts(tag) == {Undef, Some(<<>>), Some(Txt(tag, MinTextLen - 1)), Some(Txt(tag, MinTextLen))}

Media(tag) ==
    {[present |-> FALSE, caption |-> Undef]}
        \cup {[present |-> TRUE, caption |-> c] : c \in Texts(tag)}

Jids == {Undef, Some(GroupJid), Some(DirectJid), Some(StatusJid)}

\* every shape of one message: conversation id, author, and the four places a
\* text can sit in
AllMsgs ==
    [ts : {0}, remoteJid : Jids, fromMe : BOOLEAN, participant : {Undef, Some(MemberJid)},
     conversation : Texts("c"), extendedText : Texts("e"),
     image : Media("i"), video : Media("v")]

\* a message with no author field, no extended text and no video
PlainMsg(jid, me, body, caption) ==
    [ts |-> 0, remoteJid |-> jid, fromMe |-> me, participant |-> Undef,
     conversation |-> body, extendedText |-> Undef,
     image |-> [present |-> caption.some, caption |-> caption],
     video |-> [present |-> FALSE, caption |-> Undef]]

\* the shapes batches are made of: a group message of another account whose
\* text is absent, one short of the minimum, at the minimum, or an image
\* caption, and a message at the minimum that fails one test on its key
PlainMsgs ==
    {PlainMsg(Some(GroupJid), FALSE, body, Undef) : body \in Texts("c") \ {Some(<<>>)}}
        \cup {PlainMsg(Some(GroupJid), FALSE, Undef, Some(Txt("i", MinTextLen)))}
        \cup {PlainMsg(jid, FALSE, Some(Txt("c", MinTextLen)), Undef) : jid \in Jids}
        \cup {PlainMsg(Some(GroupJid), TRUE, Some(Txt("c", MinTextLen)), Undef)}

Batches(n) == UNION {[1..k -> PlainMsgs] : k \in 1..n}

\* ------------------------------------------------------------- the system
\* the connection lifecycle; the processes of Spec leave the pipeline alone
Next ==
    \/ AutoStart
    \/ AutoAuthLoaded
    \/ AutoVersionFetched
    \/ AutoRejected
    \/ \E b \in Bots : ConnectAuthLoaded(b)
    \/ \E b \in Bots : ConnectVersionFetched(b)
    \/ \E b \in Bots : ConnectRejected(b)
    \/ \E b \in Bots : TimerFire(b)
    \/ \E s \in SockIds : SockQR(s)
    \/ \E e \in encodes : QREncoded(e)
    \/ \E s \in SockIds : SockOpen(s)
    \/ \E s \in SockIds, r \in CloseReasons : SockClose(s, r)
    \/ \E s \in SockIds : CredsUpdate(s)
    \/ \E b \in Bots : QrRequestStart(b)
    \/ \E b \in Bots : QrRequestRespond(b)
    \/ \E b \in Bots : DisconnectNoHandle(b)
    \/ \E b \in Bots : DisconnectStart(b)
    \/ \E b \in Bots, i \in 1..MaxDisc, emit \in BOOLEAN : DisconnectLogoutOk(b, i, emit)
    \/ \E b \in Bots, i \in 1..MaxDisc, emit \in BOOLEAN : DisconnectLogoutFail(b, i, emit)

Spec == Init /\ [][Next]_vars

\* the lifecycle with the wait loops of GET /wa/qr followed
InitPoll == InitLife(TRUE)

NextPoll ==
    \/ Next
    \/ \E p \in pollers : PollTick(p)

SpecPoll == InitPoll /\ [][NextPoll]_vars

\* an identity paired and connected: saved credentials, its socket open
InitMsg ==
    /\ connections = [b \in Bots |->
                        [present |-> TRUE, socket |-> 1, status |-> "connected", qr |-> Null]]
    /\ sessionDir = [b \in Bots |-> "creds"]
    /\ socks = <<[bot |-> Min(Bots), phase |-> "open", qrs |-> <<>>]>>
    /\ nqr = 0
    /\ encodes = {}
    /\ timers = [b \in Bots |-> 0]
    /\ connects = [b \in Bots |-> [auth |-> 0, version |-> 0]]
    /\ auto = [pc |-> "done", todo |-> {}, bot |-> 0]
    /\ watch = FALSE
    /\ pollers = {}
    /\ discs = [b \in Bots |-> <<>>]
    /\ crashed = FALSE
    /\ cancelled = [b \in Bots |-> FALSE]
    /\ replied = NoReply
    /\ listed = NoAnswer
    /\ queries = <<>>
    /\ upserts = <<>>
    /\ posts = <<>>
    /\ delivered = <<>>

\* the pipeline on batches of plain messages
NextMsg ==
    \/ \E msgs \in Batches(MaxMsgs), type \in BatchTypes : MessagesUpsert(1, msgs, type)
    \/ \E k \in 1..MaxMsgs, subject \in Subjects : MetaResolved(k, subject)
    \/ \E k \in 1..MaxMsgs : MetaRejected(k)
    \/ \E k \in 1..MaxMsgs, outcome \in FetchOutcomes : FetchSettled(k, outcome)

SpecMsg == InitMsg /\ [][NextMsg]_vars

\* the pipeline on one message of any shape
NextOne ==
    \/ \E m \in AllMsgs, type \in BatchTypes :
          delivered = <<>> /\ MessagesUpsert(1, <<m>>, type)
    \/ \E subject \in Subjects : MetaResolved(1, subject)
    \/ MetaRejected(1)
    \/ \E outcome \in FetchOutcomes : FetchSettled(1, outcome)

SpecOne == InitMsg /\ [][NextOne]_vars

\* the lifecycle with GET /wa/groups requests
NextGroups ==
    \/ Next
    \/ \E b \in Bots : GroupsNotConnected(b)
    \/ \E b \in Bots : GroupsQuery(b)
    \/ \E i \in 1..MaxQuery : GroupsResolved(i)
    \/ \E i \in 1..MaxQuery : GroupsRejected(i)

SpecGroups == Init /\ [][NextGroups]_vars

\* the lifecycle left to itself: no disconnect command, every connectBot call
\* goes through; timers run out and pending promises settle
NextRetry ==
    \/ AutoStart
    \/ AutoAuthLoaded
    \/ AutoVersionFetched
    \/ \E b \in Bots : ConnectAuthLoaded(b)
    \/ \E b \in Bots : ConnectVersionFetched(b)
    \/ \E b \in Bots : TimerFire(b)
    \/ \E s \in SockIds : SockQR(s)
    \/ \E e \in encodes : QREncoded(e)
    \/ \E s \in SockIds : SockOpen(s)
    \/ \E s \in SockIds, r \in CloseReasons : SockClose(s, r)
    \/ \E s \in SockIds : CredsUpdate(s)
    \/ \E b \in Bots : QrRequestStart(b)
    \/ \E b \in Bots : QrRequestRespond(b)

FairRetry ==
    /\ WF_vars(AutoAuthLoaded)
    /\ WF_vars(AutoVersionFetched)
    /\ \A b \in Bots : /\ WF_vars(TimerFire(b))
                        /\ WF_vars(ConnectAuthLoaded(b))
                        /\ WF_vars(ConnectVersionFetched(b))

SpecRetry == Init /\ [][NextRetry]_vars /\ FairRetry

\* ------------------------------------------------------------- properties
Entry(b) == connections[b]

\* a start of b is under way: connectBot is suspended in an await, or its
\* socket has reported neither a QR, an open nor a close yet
StartUnderWay(b) ==
    \/ connects[b].auth + connects[b].version > 0
    \/ auto.pc \in {"auth", "version"} /\ auto.bot = b
    \/ \E s \in LiveSocks(b) : socks[s].phase = "connecting"

\* this step makes a socket for b
NewHandle(b) == Len(socks') = Len(socks) + 1 /\ socks'[Len(socks')].bot = b

\* C1: a pairing request that arrives while a start of the identity is under
\* way, or while it is waiting_qr or connected, does not call connectBot again.
C1_StartIdempotent ==
    [][\A b \in Bots :
          (QrRequest(b) /\ (StartUnderWay(b) \/ Entry(b).status \in {"waiting_qr", "connected"}))
              => connects'[b] = connects[b]]_vars

\* C2: every identity has at most one live transport handle.
C2_OneLiveHandle == \A b \in Bots : Cardinality(LiveSocks(b)) <= 1

\* C3: once a disconnect has completed with a reconnect timer outstanding, no
\* socket is made for the identity until a new pairing request.
C3_DisconnectCancelsReconnect ==
    [][\A b \in Bots : cancelled[b] => ~NewHandle(b)]_vars

\* C4: a close with a reason other than logged-out sets the status to
\* disconnected, adds exactly one reconnect timer and leaves the session
\* folder as it is; a timer that fires calls connectBot exactly once.
C4_TransientCloseRetry ==
    [][/\ \A s \in SockIds :
            (/\ s \in DOMAIN socks'
             /\ socks[s].phase # "closed" /\ socks'[s].phase = "closed"
             /\ discs' = discs) =>
                \A r \in CloseReasons \ {LoggedOut} :
                    SockClose(s, r) =>
                        LET b == socks[s].bot
                        IN /\ connections'[b].status = "disconnected"
                           /\ timers'[b] = timers[b] + 1
                           /\ connects'[b] = connects[b]
                           /\ sessionDir'[b] = sessionDir[b]
       /\ \A b \in Bots :
            TimerFire(b) =>
                /\ timers'[b] = timers[b] - 1
                /\ connects'[b].auth + connects'[b].version
                     = connects[b].auth + connects[b].version + 1]_vars

\* the one socket of the run closed for a transient reason: a timer is out,
\* the status is disconnected and the saved credentials are still there
C4_Witness ==
    /\ Len(socks) = 1
    /\ socks[1].phase = "closed"
    /\ timers[socks[1].bot] = 1
    /\ Entry(socks[1].bot).status = "disconnected"
    /\ sessionDir[socks[1].bot] = "creds"

\* C5: after a close with the logged-out reason the session folder is gone,
\* the status is disconnected, the QR is null and no reconnect is pending.
C5_LogoutCloseCleanup ==
    [][\A s \in SockIds :
          SockClose(s, LoggedOut) =>
              LET b == socks[s].bot
              IN /\ sessionDir'[b] = "none"
                 /\ connections'[b].status = "disconnected"
                 /\ connections'[b].qr = Null
                 /\ timers'[b] = 0]_vars

\* a disconnect handler runs to its response
DisconnectCompletes(b) ==
    \/ DisconnectNoHandle(b)
    \/ \E i \in 1..Len(discs[b]), emit \in BOOLEAN :
          \/ DisconnectLogoutOk(b, i, emit)
          \/ Entry(b).socket # NoSocket /\ DisconnectLogoutFail(b, i, emit)

\* C6: whenever a disconnect completes, the status is disconnected, the
\* socket and the QR are null, the session folder is gone and the answer is
\* { success: true }.
C6_DisconnectPostState ==
    [][\A b \in Bots :
          DisconnectCompletes(b) =>
              /\ connections'[b].status = "disconnected"
              /\ connections'[b].socket = NoSocket
              /\ connections'[b].qr = Null
              /\ sessionDir'[b] = "none"
              /\ replied'[b]]_vars

\* C7: when the only socket of an identity has issued two or more QR
\* challenges and is still connecting, no disconnect is under way and every
\* encoding has been stored, the QR held is the image of the last challenge.
C7_QRSupersession ==
    \A s \in SockIds :
        LET b == socks[s].bot
        IN (/\ {x \in SockIds : socks[x].bot = b} = {s}
            /\ socks[s].phase = "connecting"
            /\ Len(socks[s].qrs) >= 2
            /\ Entry(b).socket = s
            /\ discs[b] = <<>>
            /\ encodes = {})
           => Entry(b).qr = ToDataURL(Challenge(socks[s].qrs[Len(socks[s].qrs)]))

\* the POSTs issued for the message with stamp n
PostsFor(n) == {i \in 1..Len(posts) : posts[i].body.timestamp = n}

\* no handler has message n still before it, or waiting for its group name
Handled(n) ==
    \A k \in 1..Len(upserts) :
        \A j \in 1..Len(upserts[k].rest) :
            upserts[k].rest[j].ts = n => (j = 1 /\ upserts[k].stage = "post")

\* a live notification, in a group, not the identity's own, of 5 characters or more
Qualifies(d) ==
    /\ d.type = "notify"
    /\ d.msg.remoteJid = Some(GroupJid)
    /\ ~d.msg.fromMe
    /\ Len(ExtractText(d.msg)) >= 5

\* C8: a delivered message is POSTed at most once, never when it does not
\* qualify, and exactly once when it qualifies and its handler is past it.
C8_MessageFiltering ==
    \A i \in 1..Len(delivered) :
        LET d == delivered[i]
            n == d.msg.ts
        IN /\ Cardinality(PostsFor(n)) <= 1
           /\ ~Qualifies(d) => PostsFor(n) = {}
           /\ (Qualifies(d) /\ Handled(n)) => Cardinality(PostsFor(n)) = 1

\* a batch of a 5-character and a 4-character group message, handled: one POST
C8_Witness ==
    /\ Len(delivered) = 2
    /\ upserts = <<>>
    /\ \A i \in 1..2 : /\ delivered[i].type = "notify"
                       /\ delivered[i].msg.remoteJid = Some(GroupJid)
                       /\ ~delivered[i].msg.fromMe
    /\ Len(ExtractText(delivered[1].msg)) = 5
    /\ Len(ExtractText(delivered[2].msg)) = 4
    /\ Len(posts) = 1
    /\ posts[1].body.timestamp = 1

NonEmpty(f) == f.some /\ f.str # <<>>

\* the first non-empty of plain body, extended body, image caption, video
\* caption, and the empty text when there is none
FirstNonEmpty(m) ==
    IF NonEmpty(m.conversation) THEN m.conversation.str
    ELSE IF NonEmpty(m.extendedText) THEN m.extendedText.str
    ELSE IF m.image.present /\ NonEmpty(m.image.caption) THEN m.image.caption.str
    ELSE IF m.video.present /\ NonEmpty(m.video.caption) THEN m.video.caption.str
    ELSE <<>>

\* C9: the text forwarded is the first non-empty of the four places; a
\* message is forwarded exactly when that text has 5 characters or more, so
\* a message with all four absent or empty is dropped.
C9_TextExtractionPriority ==
    \A i \in 1..Len(delivered) :
        LET d == delivered[i]
            n == d.msg.ts
        IN /\ \A j \in PostsFor(n) : posts[j].body.text = FirstNonEmpty(d.msg)
           /\ (d.type = "notify" /\ KeyPasses(d.msg) /\ Handled(n))
                 => (PostsFor(n) # {} <=> Len(FirstNonEmpty(d.msg)) >= 5)

\* a message with a plain body and an image caption, both long enough, was
\* forwarded with the plain body
C9_Witness ==
    \E j \in 1..Len(posts) :
        LET m == delivered[posts[j].body.timestamp].msg
        IN /\ NonEmpty(m.conversation) /\ Len(m.conversation.str) >= 5
           /\ m.image.present /\ NonEmpty(m.image.caption) /\ Len(m.image.caption.str) >= 5
           /\ posts[j].body.text = m.conversation.str

\* this step issues one POST, for the message at the head of handler k
ForwardsHead(k) ==
    /\ Len(posts') = Len(posts) + 1
    /\ SubSeq(posts', 1, Len(posts)) = posts
    /\ posts'[Len(posts')].body.timestamp = Head(upserts[k].rest).ts
    /\ posts'[Len(posts')].body.group_jid = Head(upserts[k].rest).remoteJid.str

\* C10: when the metadata query fails the message is forwarded with its
\* conversation id as group_name; when it gives a display name, with that name.
C10_GroupNameFallback ==
    [][\A k \in 1..Len(upserts) :
          /\ MetaRejected(k) =>
                /\ ForwardsHead(k)
                /\ posts'[Len(posts')].body.group_name = Head(upserts[k].rest).remoteJid.str
          /\ \A subject \in Subjects :
                (MetaResolved(k, subject) /\ NonEmpty(subject)) =>
                    /\ ForwardsHead(k)
                    /\ posts'[Len(posts')].body.group_name = subject.str]_vars

\* one message forwarded after its query failed, another under its display name
C10_Witness ==
    /\ \E i \in 1..Len(posts) :
          posts[i].meta.rejected /\ posts[i].body.group_name = posts[i].body.group_jid
    /\ \E i \in 1..Len(posts) :
          /\ ~posts[i].meta.rejected /\ NonEmpty(posts[i].meta.subject)
          /\ posts[i].body.group_name = posts[i].meta.subject.str

\* connectBot(b) rejects: the call awaited by autoReconnect, or one not awaited
ConnectFails(b) ==
    \/ ConnectRejected(b)
    \/ AutoRejected /\ auto.bot = b

\* C11: when a connect attempt of an identity fails, the process stays up, the
\* status is disconnected and one reconnect timer is added for the identity.
C11_ConnectFailureIsTransient ==
    [][\A b \in Bots :
          ConnectFails(b) =>
              /\ ~crashed'
              /\ Entry(b)'.status = "disconnected"
              /\ timers'[b] = timers[b] + 1]_vars

\* GET /wa/groups/:botId is handled up to its answer or its await
GroupsRequest(b) == GroupsNotConnected(b) \/ GroupsQuery(b)

\* C12: the transport is asked for the groups only of an identity whose status
\* is connected; a request in any other status is answered Not connected and
\* asks nothing; a query that fails is answered with the failure, is not asked
\* again and leaves the registry as it is.
C12_ListGroupsOnlyWhenConnected ==
    [][/\ Len(queries') > Len(queries) =>
              \E b \in Bots : /\ Entry(b).status = "connected"
                              /\ queries' = Insert(queries, Entry(b).socket)
       /\ \A b \in Bots :
              (GroupsRequest(b) /\ Entry(b).status # "connected") =>
                  /\ listed' = "not connected"
                  /\ queries' = queries
       /\ \A i \in 1..Len(queries) :
              GroupsRejected(i) =>
                  /\ listed' = "failed"
                  /\ queries' = Remove(queries, i)
                  /\ connections' = connections]_vars

\* a query of a connected identity has just failed and was answered so
C12_Witness ==
    /\ listed = "failed"
    /\ queries = <<>>
    /\ \E b \in Bots : Entry(b).status = "connected"

\* the handler of p has left its wait loop and answered
Answered(p) == \A q \in pollers' : q.bot # p.bot \/ q \in pollers \ {p}

\* C13: a waiting pairing request has slept fewer than 20 times; after a sleep
\* it leaves the loop and answers exactly when a QR is held, the status is
\* connected or it has slept 20 times, and with neither a QR nor a connected
\* status the answer is success: false.
C13_BoundedPairingWait ==
    [][\A p \in pollers :
          PollTick(p) =>
              /\ p.i < PollLimit
              /\ Answered(p) <=> \/ Truthy(Entry(p.bot).qr)
                                 \/ Entry(p.bot).status = "connected"
                                 \/ p.i + 1 >= PollLimit
              /\ (Answered(p) /\ ~Truthy(Entry(p.bot).qr) /\ Entry(p.bot).status # "connected")
                    => ~QrAnswer(p.bot).success]_vars

\* C14: after a close of either kind has been handled, the entry of the
\* identity is disconnected and holds no socket.
C14_CloseClearsHandle ==
    [][\A s \in SockIds, r \in CloseReasons :
          SockClose(s, r) =>
              /\ Entry(socks[s].bot)'.status = "disconnected"
              /\ Entry(socks[s].bot)'.socket = NoSocket]_vars

\* a close of a socket of b is handled, or a disconnect of b runs to its end
ClosesOrDisconnects(b) ==
    \/ \E s \in SockIds, r \in CloseReasons : socks[s].bot = b /\ SockClose(s, r)
    \/ \E i \in 1..Len(discs[b]), emit \in BOOLEAN :
          DisconnectLogoutOk(b, i, emit) \/ DisconnectLogoutFail(b, i, emit)

\* C15: an open leaves the status connected and the QR null; a connected entry
\* with no QR stays so in every step but a close or a disconnect of the
\* identity, and connected is never followed by waiting_qr.
C15_OpenIsStable ==
    [][/\ \A s \in SockIds :
              SockOpen(s) => /\ Entry(socks[s].bot)'.status = "connected"
                             /\ Entry(socks[s].bot)'.qr = Null
       /\ \A b \in Bots :
              (Entry(b).status = "connected" /\ Entry(b).qr = Null /\ ~crashed') =>
                  /\ Entry(b)'.status # "waiting_qr"
                  /\ ~ClosesOrDisconnects(b) =>
                        /\ Entry(b)'.status = "connected"
                        /\ Entry(b)'.qr = Null]_vars

\* a socket of b made after the first n of the run
HandleAfter(b, n) == \E s \in SockIds : s > n /\ socks[s].bot = b

C17_ForwardingOrder ==
    \A i, j \in 1..Len(posts) :
        (i < j /\ posts[i].body.bot_id = posts[j].body.bot_id)
            => posts[i].body.timestamp < posts[j].body.timestamp

\* message m is still before some handler of hs
Pending(hs, m) ==
    \E h \in 1..Len(hs) : \E x \in 1..Len(hs[h].rest) : hs[h].rest[x] = m

\* C18: no message is POSTed twice; when a POST fails (a response that is not
\* ok, or a rejection) nothing is POSTed in its place, the message leaves the
\* handler, the registry is untouched and every message of the rest of the
\* batch that passes the filters is still before the handler.
C18_BestEffortForwarding ==
    [][/\ \A i, j \in 1..Len(posts') :
              i # j => posts'[i].body.timestamp # posts'[j].body.timestamp
       /\ \A k \in 1..Len(upserts), outcome \in FetchOutcomes \ {"ok"} :
              FetchSettled(k, outcome) =>
                  /\ Len(posts') = Len(posts)
                  /\ \A i \in 1..Len(posts) : posts'[i].body = posts[i].body
                  /\ ~Pending(upserts', Head(upserts[k].rest))
                  /\ connections' = connections
                  /\ \A j \in 2..Len(upserts[k].rest) :
                        Passes(upserts[k].rest[j]) => Pending(upserts', upserts[k].rest[j])]_vars

\* the first message of a batch was POSTed and the POST failed; the second
\* message of the same batch was POSTed after it
C18_Witness ==
    /\ Len(posts) = 2
    /\ posts[1].outcome = "failed"
    /\ posts[1].body.timestamp = 1
    /\ posts[2].body.timestamp = 2
    /\ delivered[1].batch = delivered[2].batch

\* C19: in every entry of the registry the stored QR image is non-null exactly
\* when the status is waiting_qr.
C19_QRIffWaiting ==
    \A b \in Bots :
        Entry(b).present => (Truthy(Entry(b).qr) <=> Entry(b).status = "waiting_qr")

\* an identity is connected with no image stored, on a socket whose pairing
\* challenge had been encoded and stored before it opened
C19_Witness ==
    \E b \in Bots :
        /\ Entry(b).present /\ Entry(b).status = "connected" /\ Entry(b).qr = Null
        /\ HasHandle(b)
        /\ socks[Entry(b).socket].qrs # <<>>
        /\ encodes = {}

\* C20: an identity whose status is waiting_qr or connected has a socket in
\* its entry.
C20_ActiveStatusHasHandle ==
    \A b \in Bots :
        Entry(b).status \in {"waiting_qr", "connected"} => Entry(b).socket # NoSocket
====
